---- MODULE Spec2Model ----
(***************************************************************************)
(* Model of the hackathon filtering-and-caching service: the request       *)
(* handler (src/api/main.py), the pipeline and the detail enricher         *)
(* (src/api/crawler.py), the location resolver (src/api/utils.py) and the  *)
(* cache backends (src/api/cache.py on Redis, src/cache.py on a file).     *)
(*                                                                         *)
(* Spec is the service handling requests one after another, SpecFrozen the *)
(* same against an outside world that does not change, SpecListingFetcher  *)
(* the page loop on its own, SpecLoadCache load_cache on its own and       *)
(* SpecShared two processes on one store.                                  *)
(*                                                                         *)
(* Text is modelled as a tuple of one-character strings; a markup tag is   *)
(* one token ("<span>", "</span>").  The token "INR" stands for the single *)
(* character U+20B9 (rupee sign).                                          *)
(***************************************************************************)
EXTENDS Integers, Sequences, FiniteSets, TLC

VARIABLES
    redis,                  \* the two Redis keys cache:hackathons / cache:locations
    api_key,                \* GOOGLE_API_MAPS_KEY is set (crawler.py:16)
    pc,                     \* position of fetch_hackathon_data
    page,                   \* loop variable of the page loop (crawler.py:132)
    all_hackathons,         \* crawler.py:130
    cache_data,             \* crawler.py:161 (hackathon_cache aliases cache_data.hackathons)
    idx,                    \* position of the listing loop (crawler.py:166)
    filtered_hackathons,    \* crawler.py:164
    detailed_info,          \* crawler.py:233
    result,                 \* value returned by the run that just completed
    ev,                     \* what the last step did (observation only)
    prev_res,               \* the resolver invocation before the last one (observation only)
    last_res,               \* the last resolver invocation (observation only)
    seen_at_load,           \* keys of the hackathons partition when the run loaded the cache
    runs,                   \* pipeline runs started so far
    env,                    \* the outside world: frozen or volatile, and what it answered
    hist,                   \* what the previous completed run left behind (observation only)
    kv_configured,          \* CACHE_KV_REST_API_URL and _TOKEN are set (cache.py:14-15)
    tasks,                  \* the detail fetches of asyncio.gather (crawler.py:81-86)
    attempts,               \* the page requests of the page loop so far (observation only)
    response,               \* the last response of GET /hackathons (main.py:28-46)
    data_cache,             \* the file data_cache.json of the file backend (src/cache.py:5)
    load_result,            \* what the last load_cache call on its own gave
    inst                    \* two processes that load, change and save the document

\* the credentials of the process
config == <<api_key, kv_configured>>

\* state that only the specifications of the cache backends use
backends == <<data_cache, load_result, inst>>

\* the state of a request to GET /hackathons and of the pipeline run it makes
request == <<pc, page, all_hackathons, cache_data, idx, filtered_hackathons, detailed_info,
             result, ev, prev_res, last_res, seen_at_load, runs, env, hist, tasks, attempts,
             response>>

vars == <<redis, api_key, pc, page, all_hackathons, cache_data, idx,
          filtered_hackathons, detailed_info, result, ev, prev_res, last_res,
          seen_at_load, runs, env, hist, kv_configured, tasks, attempts,
          response, data_cache, load_result, inst>>

\* ------------------------------------------------------------------ bounds

\* pipeline runs in one behaviour
MaxRuns == 2

\* num_pages default argument of fetch_hackathon_data
NumPages == 2

\* ------------------------------------------------------------------ text

Digits == {"0", "1", "2", "3", "4", "5", "6", "7", "8", "9"}

Tags == {"<span>", "</span>"}

Whitespace == {" "}

DigitValue(c) ==
    CASE c = "0" -> 0 [] c = "1" -> 1 [] c = "2" -> 2 [] c = "3" -> 3
      [] c = "4" -> 4 [] c = "5" -> 5 [] c = "6" -> 6 [] c = "7" -> 7
      [] c = "8" -> 8 [] c = "9" -> 9

\* str.lower() on one character
LowerChar(c) ==
    CASE c = "O" -> "o" [] c = "N" -> "n" [] c = "L" -> "l" [] c = "I" -> "i"
      [] c = "E" -> "e" [] c = "V" -> "v" [] c = "T" -> "t" [] c = "B" -> "b"
      [] c = "C" -> "c" [] c = "U" -> "u" [] c = "S" -> "s" [] c = "A" -> "a"
      [] c = "R" -> "r" [] OTHER -> c

\* str.lower()
Lower(s) == [i \in 1..Len(s) |-> LowerChar(s[i])]

\* `needle in s` for strings
Contains(s, needle) ==
    \E i \in 0..(Len(s) - Len(needle)) :
        \A j \in 1..Len(needle) : s[i + j] = needle[j]

\* str.strip() of one text node
RECURSIVE LStrip(_)
LStrip(s) == IF s # <<>> /\ Head(s) \in Whitespace THEN LStrip(Tail(s)) ELSE s

RECURSIVE RStrip(_)
RStrip(s) ==
    IF s # <<>> /\ s[Len(s)] \in Whitespace THEN RStrip(SubSeq(s, 1, Len(s) - 1)) ELSE s

Strip(s) == RStrip(LStrip(s))

\* BeautifulSoup(prize_html).get_text(strip=True): the text nodes between the
\* tags, each stripped, the non-empty ones joined.  cur is the text node being read.
RECURSIVE GetTextFrom(_, _)
GetTextFrom(markup, cur) ==
    IF markup = <<>> THEN Strip(cur)
    ELSE IF Head(markup) \in Tags
         THEN Strip(cur) \o GetTextFrom(Tail(markup), <<>>)
         ELSE GetTextFrom(Tail(markup), Append(cur, Head(markup)))

GetText(markup) == GetTextFrom(markup, <<>>)

\* a prize amount string that keeps its thousands separators
RemoveCommas_Keeps(s) == s

\* str.replace(',', '')
RECURSIVE RemoveCommas(_)
RemoveCommas(s) ==
    IF s = <<>> THEN <<>>
    ELSE IF Head(s) = "," THEN RemoveCommas(Tail(s))
         ELSE <<Head(s)>> \o RemoveCommas(Tail(s))

\* str.isdigit(): non-empty and every character a digit
IsDigit(s) == s # <<>> /\ \A i \in 1..Len(s) : s[i] \in Digits

\* int(s) for a digit string
RECURSIVE ToInt(_)
ToInt(s) == IF s = <<>> THEN 0 ELSE 10 * ToInt(SubSeq(s, 1, Len(s) - 1)) + DigitValue(s[Len(s)])

\* ------------------------------------------------------------------ maps

EmptyMap == <<>>

\* d[k] = v on a dict
Put(d, k, v) == (k :> v) @@ d

\* ------------------------------------------------------------------ src/api/cache.py

\* a Redis key: absent, or holding a string (the JSON text of a dict, or text
\* json.loads rejects)
Absent == [state |-> "nil", json |-> EmptyMap]

\* the key holds the empty string
EmptyString == [state |-> "empty", json |-> EmptyMap]

Undecodable == [state |-> "garbage", json |-> EmptyMap]

\* json.dumps(d): the stored string decodes back to d
Dumps(d) == [state |-> "json", json |-> d]

\* one partition of load_cache: a missing key and an undecodable string give {}
LoadPartition(value) == IF value.state = "json" THEN value.json ELSE EmptyMap

\* load_cache that reads only the locations key
load_cache_LocationsOnly(store) ==
    [hackathons |-> EmptyMap,
     locations  |-> LoadPartition(store.locations)]

load_cache(store) ==
    [hackathons |-> LoadPartition(store.hackathons),
     locations  |-> LoadPartition(store.locations)]

\* save_cache that writes the hackathons key without the document's entries
save_cache_DropsHackathons(doc) ==
    [hackathons |-> Dumps(EmptyMap),
     locations  |-> Dumps(doc.locations)]

\* save_cache: both keys are rewritten from the document it is given (each with
\* ex=604800; the expiry of a key is not modelled)
save_cache(doc) ==
    [hackathons |-> Dumps(doc.hackathons),
     locations  |-> Dumps(doc.locations)]

\* ------------------------------------------------------------------ src/cache.py

\* the file data_cache.json: missing, or holding text that is JSON or is not
NoFile == [state |-> "missing", json |-> EmptyMap]

FileGarbage == [state |-> "garbage", json |-> EmptyMap]

FileJson(d) == [state |-> "json", json |-> d]

\* dict.setdefault(k, v)
SetDefault(d, k, v) == IF k \in DOMAIN d THEN d ELSE Put(d, k, v)

\* load_cache of the file backend (src/cache.py:7-19): json.load raises on text
\* that is no JSON, and nothing catches it
file_load_cache(file) ==
    IF file.state = "missing" THEN [raised |-> FALSE, doc |-> [hackathons |-> EmptyMap, locations |-> EmptyMap]]
    ELSE IF file.state = "json"
         THEN [raised |-> FALSE,
               doc |-> SetDefault(SetDefault(file.json, "hackathons", EmptyMap),
                                  "locations", EmptyMap)]
         ELSE [raised |-> TRUE, doc |-> EmptyMap]

\* ------------------------------------------------------------------ geocoding provider

Component(types, long_name, short_name) ==
    [types |-> types, long_name |-> long_name, short_name |-> short_name]

Province(name) == Component({"administrative_area_level_1", "political"}, name, name)

Country(code) == Component({"country", "political"}, code, code)

Locality(name) == Component({"locality", "political"}, name, name)

\* requests.get / raise_for_status raised RequestException
GeoRequestFailed == [kind |-> "RequestException", results |-> <<>>]

\* r.json() raised ValueError
GeoBadJson == [kind |-> "ValueError", results |-> <<>>]

\* a parsed body; results is the "results" array (each entry its address_components)
GeoBody(results) == [kind |-> "json", results |-> results]

GeoNoResults == GeoBody(<<>>)

GeoVancouver == GeoBody(<< <<Locality("Vancouver"), Province("British Columbia"), Country("CA")>> >>)

GeoToronto == GeoBody(<< <<Locality("Toronto"), Province("Ontario"), Country("CA")>> >>)

\* a first result without a province and without a country component
GeoLocalityOnly == GeoBody(<< <<Locality("Vancouver")>> >>)

\* a first result in British Columbia (names in another case) before a second in Ontario
GeoVictoriaFirst ==
    GeoBody(<< <<Locality("Victoria"), Province("BRITISH COLUMBIA"), Country("ca")>>,
               <<Locality("Toronto"), Province("Ontario"), Country("CA")>> >>)

\* a first result whose province matches and whose country does not
GeoWrongCountry == GeoBody(<< <<Province("British Columbia"), Country("US")>> >>)

GeoResponses ==
    {GeoRequestFailed, GeoBadJson, GeoNoResults, GeoVancouver, GeoToronto,
     GeoLocalityOnly, GeoVictoriaFirst, GeoWrongCountry}

\* str.lower() on the names the provider returns
LowerName(n) ==
    CASE n = "British Columbia" -> "british columbia"
      [] n = "BRITISH COLUMBIA" -> "british columbia"
      [] n = "Ontario" -> "ontario"
      [] n = "Victoria" -> "victoria"
      [] n = "Vancouver" -> "vancouver"
      [] n = "Toronto" -> "toronto"
      [] n = "CA" -> "ca"
      [] n = "US" -> "us"
      [] OTHER -> n

\* a region test that wants a matching province and a matching country to be present
IsBC_PresenceRequired(components) ==
    /\ \E i \in 1..Len(components) :
          /\ "administrative_area_level_1" \in components[i].types
          /\ LowerName(components[i].long_name) = "british columbia"
    /\ \E i \in 1..Len(components) :
          /\ "country" \in components[i].types
          /\ LowerName(components[i].short_name) = "ca"

\* the loop over result["address_components"] (utils.py:51-62): True until a
\* province or country component mismatches, then break
RECURSIVE IsBC(_)
IsBC(components) ==
    IF components = <<>> THEN TRUE
    ELSE LET c == Head(components) IN
         IF "administrative_area_level_1" \in c.types
              /\ LowerName(c.long_name) # "british columbia"
         THEN FALSE
         ELSE IF "country" \in c.types /\ LowerName(c.short_name) # "ca"
              THEN FALSE
              ELSE IsBC(Tail(components))

\* ------------------------------------------------------------------ src/api/utils.py

\* what one resolver invocation did
Resolution(address, ret, loaded, hit, outbound, geo, saved) ==
    [invoked |-> TRUE, address |-> address, ret |-> ret, loaded |-> loaded, hit |-> hit,
     outbound |-> outbound, geo |-> geo, saved |-> saved]

NoResolution ==
    [invoked |-> FALSE, address |-> <<>>, ret |-> FALSE, loaded |-> FALSE, hit |-> FALSE,
     outbound |-> FALSE, geo |-> GeoNoResults, saved |-> FALSE]

\* a resolver that never finds its cached result
LocationCached_Never(location_cache, address) == FALSE

\* the cached-result test of the resolver (utils.py:19)
LocationCached(location_cache, address) == address \in DOMAIN location_cache

\* except branches that cache False like the empty-result branch does
AfterGeoFailure_Caches(doc, address) ==
    [save |-> TRUE, doc |-> [doc EXCEPT !.locations = Put(@, address, FALSE)]]

\* the except branches of the geocoding call (utils.py:33-38) return False and
\* leave the document as loaded, unsaved
AfterGeoFailure(doc, address) == [save |-> FALSE, doc |-> doc]

\* a resolver that goes on without its key
KeyMissing_Never(key_set) == FALSE

\* `if not api_key` (utils.py:10)
KeyMissing(key_set) == ~key_set

\* is_in_british_columbia_google(address, api_key) run against the store, the
\* provider answering geo: the store afterwards and what the invocation did
is_in_british_columbia_google(store, address, key_set, geo) ==
    IF KeyMissing(key_set)
    THEN [store |-> store,
          res |-> Resolution(address, FALSE, FALSE, FALSE, FALSE, GeoNoResults, FALSE)]
    ELSE LET doc == load_cache(store)
             location_cache == doc.locations
         IN  IF LocationCached(location_cache, address)
             THEN [store |-> store,
                   res |-> Resolution(address, location_cache[address], TRUE, TRUE, FALSE,
                                      GeoNoResults, FALSE)]
             ELSE IF geo.kind # "json"
                  THEN LET after == AfterGeoFailure(doc, address) IN
                       [store |-> IF after.save THEN save_cache(after.doc) ELSE store,
                        res |-> Resolution(address, FALSE, TRUE, FALSE, TRUE, geo, after.save)]
                  ELSE LET is_bc == IF geo.results = <<>> THEN FALSE
                                    ELSE IsBC(geo.results[1])
                           updated == [doc EXCEPT !.locations = Put(location_cache, address, is_bc)]
                       IN  [store |-> save_cache(updated),
                            res |-> Resolution(address, is_bc, TRUE, FALSE, TRUE, geo, TRUE)]

\* ------------------------------------------------------------------ upstream listings

Online == <<"O", "n", "l", "i", "n", "e">>

VancouverBC == <<"V", "a", "n", "c", "o", "u", "v", "e", "r", ",", " ", "B", "C">>

Toronto == <<"T", "o", "r", "o", "n", "t", "o">>

\* displayed locations of the listings
Locations == {Online, VancouverBC}

\* addresses other callers resolve
Addresses == {VancouverBC, Toronto}

\* "$<span data-currency-value>20,000</span>"
PrizeUSD == <<"$", "<span>", "2", "0", ",", "0", "0", "0", "</span>">>

PrizeZero == <<"$", "<span>", "0", "</span>">>

PrizeTBD == <<"$", "T", "B", "D">>

PrizeINR == <<"INR", "<span>", "1", "8", "0", ",", "0", "0", "0", "</span>">>

PrizeCAD == <<"C", "A", "D", "5", ",", "0", "0", "0">>

PrizeNone == <<"<span>", " ", "</span>">>

Prizes == {PrizeUSD, PrizeZero, PrizeTBD, PrizeINR, PrizeCAD, PrizeNone}

Listing(url, location, prize_amount) ==
    [url |-> url, location |-> location, prize_amount |-> prize_amount]

UrlA == "https://x/a"

UrlB == "https://x/b"

\* the listing at UrlA is online and the listing at UrlB is in Vancouver; the
\* upstream shows each with any of four prize fields
Listings ==
    {Listing(UrlA, Online, p) : p \in {PrizeUSD, PrizeZero, PrizeTBD, PrizeCAD}}
        \cup {Listing(UrlB, VancouverBC, p) : p \in {PrizeUSD, PrizeZero, PrizeINR, PrizeNone}}

\* the "hackathons" array of a page: empty, or one listing
PageBodies == {<<>>} \cup {<<l>> : l \in Listings}

PageRequestFailed == [kind |-> "RequestException", hackathons |-> <<>>]

PageBadJson == [kind |-> "ValueError", hackathons |-> <<>>]

PageBody(hackathons) == [kind |-> "json", hackathons |-> hackathons]

PageResponses == {PageRequestFailed, PageBadJson} \cup {PageBody(b) : b \in PageBodies}

\* pages that also carry two listings, in either order or twice the same
TwoListingBodies ==
    {<<a, b>> : a, b \in {Listing(UrlA, Online, PrizeUSD), Listing(UrlB, VancouverBC, PrizeUSD)}}

WidePageResponses == PageResponses \cup {PageBody(b) : b \in TwoListingBodies}

\* ------------------------------------------------------------------ detail pages

\* session.get raised aiohttp.ClientError: fetch_hackathon_detail returns ""
DetailFailed == [kind |-> "ClientError", items |-> <<>>]

\* a fetched page; items are the texts of its "#eligibility-list li" elements
DetailPage(items) == [kind |-> "html", items |-> items]

\* session.get raised asyncio.TimeoutError (the session's total timeout), which
\* is no aiohttp.ClientError
DetailTimedOut == [kind |-> "TimeoutError", items |-> <<>>]

OpenToAll == <<"O", "p", "e", "n", " ", "t", "o", " ", "a", "l", "l">>

InUsOnly == <<"I", "n", " ", "U", "S", " ", " ", "O", "n", "l", "y">>

AgesOnly == <<"(", "A", "g", "e", "s", " ", "1", "3", " ", "t", "o", " ", "1", "8", " ", "o", "n", "l", "y", ")">>

CampusOnly == <<"C", "a", "m", "p", "u", "s", " ", "o", "n", "l", "y">>

\* what the detail page of a candidate can be
DetailResponses ==
    {DetailFailed, DetailPage(<<>>), DetailPage(<<InUsOnly>>),
     DetailPage(<<OpenToAll, AgesOnly>>), DetailPage(<<CampusOnly>>)}

\* what a detail fetch can come to
DetailOutcomes == DetailResponses \cup {DetailTimedOut}

\* ------------------------------------------------------------------ src/api/crawler.py

\* a task of asyncio.gather: pending, returned with its html, or raised
PendingTask == [state |-> "pending", html |-> DetailFailed]

\* fetch_hackathon_detail (crawler.py:32-44) settling with outcome r: the page
\* text, "" after an aiohttp.ClientError, and any other exception raised on
fetch_hackathon_detail(r) ==
    IF r.kind = "html" THEN [state |-> "returned", html |-> r]
    ELSE IF r.kind = "ClientError" THEN [state |-> "returned", html |-> DetailFailed]
    ELSE [state |-> "raised", html |-> DetailFailed]

\* GET /hackathons answers with a status and, on success, the hackathons
Response(status, hackathons) == [status |-> status, hackathons |-> hackathons]

NoResponse == Response(0, <<>>)

\* API_KEY of the environment (main.py:20)
API_KEY == "secret"

\* the x-api-key header of a request; "none" is a request without the header
Headers == {"none", "secret", "guess"}

\* main.py:30
Authorized(x_api_key) == x_api_key = API_KEY

\* dict.get(key, default)
Get(d, key, default) == IF key \in DOMAIN d THEN d[key] ELSE default

SYMBOL_TO_CURRENCY == (<<"$">> :> "USD") @@ (<<"C", "A", "D">> :> "CAD")

\* item.get_text(strip=True).lower() (crawler.py:60)
LowerItem(t) == Lower(Strip(t))

\* \w of the regular expression
WordChars ==
    {"a", "b", "c", "d", "e", "f", "g", "h", "i", "j", "k", "l", "m", "n", "o", "p", "q",
     "r", "s", "t", "u", "v", "w", "x", "y", "z", "_"} \cup Digits

IsWordAt(s, k) == k \in 1..Len(s) /\ LowerChar(s[k]) \in WordChars

\* \b between positions k and k + 1
WordBoundary(s, k) == IsWordAt(s, k) # IsWordAt(s, k + 1)

\* the literal `word` at positions from + 1 .. from + Len(word), case ignored
MatchesAt(s, from, word) ==
    /\ from + Len(word) <= Len(s)
    /\ \A j \in 1..Len(word) : LowerChar(s[from + j]) = word[j]

\* re.compile(r'\bus\s*only\b', re.IGNORECASE).search(entry)
UsOnlyPattern(entry) ==
    \E i \in 0..Len(entry), k \in 0..Len(entry) :
        /\ WordBoundary(entry, i)
        /\ MatchesAt(entry, i, <<"u", "s">>)
        /\ i + 2 + k <= Len(entry)
        /\ \A j \in (i + 3)..(i + 2 + k) : entry[j] \in Whitespace
        /\ MatchesAt(entry, i + 2 + k, <<"o", "n", "l", "y">>)
        /\ WordBoundary(entry, i + 6 + k)

\* excluded_keywords (crawler.py:104)
ExcludedKeyword == <<"a", "g", "e", "s", " ", "1", "3", " ", "t", "o", " ", "1", "8", " ", "o", "n", "l", "y">>

\* `keyword in item` (crawler.py:107)
HasExcludedKeyword(item) == Contains(item, ExcludedKeyword)

\* parse_hackathon_details(html_content): the details dict
parse_hackathon_details(html) ==
    IF html.items = <<>>
    THEN ("eligibility_items" :> <<>>)
    ELSE LET texts == [i \in 1..Len(html.items) |-> LowerItem(html.items[i])] IN
         ("eligibility_items" :> texts)
           @@ ("US only" :> (\E i \in 1..Len(texts) : UsOnlyPattern(texts[i])))

\* one entry of fetch_all_hackathon_details: "" (a failed fetch) gives {}
DetailsOf(html) == IF html.kind = "html" THEN parse_hackathon_details(html) ELSE EmptyMap

\* the zip loop of fetch_all_hackathon_details (crawler.py:88-93) from position i on
RECURSIVE CollectDetails(_, _, _, _)
CollectDetails(hackathons, htmls, i, info) ==
    IF i > Len(hackathons) THEN info
    ELSE CollectDetails(hackathons, htmls, i + 1,
                        Put(info, hackathons[i].url, DetailsOf(htmls[i])))

\* an audience test that excludes nobody
is_target_audience_Always(eligibility_items) == TRUE

is_target_audience(eligibility_items) ==
    ~ \E i \in 1..Len(eligibility_items) : HasExcludedKeyword(eligibility_items[i])

\* a seen-filter that lets every url through
AlreadyInCache_Never(url, hackathon_cache) == FALSE

\* the seen-filter (crawler.py:171)
AlreadyInCache(url, hackathon_cache) == url \in DOMAIN hackathon_cache

\* crawler.py:191-193: the currency symbol and the amount of a non-empty prize text
ParsePrize(prize_text) ==
    LET prize_amount_str == RemoveCommas(Tail(prize_text)) IN
    [currency_symbol |-> <<Head(prize_text)>>,
     prize_amount |-> IF IsDigit(prize_amount_str) THEN ToInt(prize_amount_str) ELSE 0]

\* crawler.py:196
CurrencyAccepted(currency_symbol) == currency_symbol \in DOMAIN SYMBOL_TO_CURRENCY

\* an online test that compares the location as written
IsOnlineLocation_CaseSensitive(location) == Contains(location, <<"o", "n", "l", "i", "n", "e">>)

\* crawler.py:207-208
IsOnlineLocation(location) == Contains(Lower(location), <<"o", "n", "l", "i", "n", "e">>)

\* hackathon_dict (crawler.py:217-223).  prize stands for the string
\* f"{currency_code} {prize_amount:,}"; name and date are copied from the listing
\* unread and are left out.
HackathonDict(listing, currency_code, prize_amount) ==
    [url |-> listing.url, location |-> listing.location,
     prize |-> [currency |-> currency_code, amount |-> prize_amount]]

NoDict == [url |-> "", location |-> <<>>, prize |-> [currency |-> "", amount |-> 0]]

\* what the body of the listing loop did for one listing
Filtered(outcome, parsed, store, res, dict) ==
    [outcome |-> outcome, currency_symbol |-> parsed.currency_symbol,
     prize_amount |-> parsed.prize_amount, store |-> store, res |-> res, dict |-> dict]

NotParsed == [currency_symbol |-> <<>>, prize_amount |-> 0]

\* one pass of the listing loop (crawler.py:166-227) for `listing`
FilterListing(listing, hackathon_cache, store, key_set, geo) ==
    IF AlreadyInCache(listing.url, hackathon_cache)
    THEN Filtered("already-in-cache", NotParsed, store, NoResolution, NoDict)
    ELSE LET prize_text == GetText(listing.prize_amount) IN
    IF prize_text = <<>>
    THEN Filtered("no-prize", NotParsed, store, NoResolution, NoDict)
    ELSE LET parsed == ParsePrize(prize_text) IN
    IF ~CurrencyAccepted(parsed.currency_symbol)
    THEN Filtered("excluded-currency", parsed, store, NoResolution, NoDict)
    ELSE LET currency_code == SYMBOL_TO_CURRENCY[parsed.currency_symbol]
             dict == HackathonDict(listing, currency_code, parsed.prize_amount)
         IN
    IF IsOnlineLocation(listing.location)
    THEN Filtered("candidate", parsed, store, NoResolution, dict)
    ELSE LET r == is_in_british_columbia_google(store, listing.location, key_set, geo) IN
         IF r.res.ret
         THEN Filtered("candidate", parsed, r.store, r.res, dict)
         ELSE Filtered("not-in-bc", parsed, r.store, r.res, NoDict)

\* an eligibility loop that also rejects a candidate whose details are empty
RECURSIVE EligibilityLoop_RejectsEmpty(_, _, _, _, _)
EligibilityLoop_RejectsEmpty(candidates, info, i, hackathon_cache, final) ==
    IF i > Len(candidates) THEN [hackathon_cache |-> hackathon_cache, final |-> final]
    ELSE LET hackathon == candidates[i]
             details == Get(info, hackathon.url, EmptyMap)
         IN  IF details = EmptyMap
                  \/ Get(details, "US only", FALSE)
                  \/ ~is_target_audience(Get(details, "eligibility_items", <<>>))
             THEN EligibilityLoop_RejectsEmpty(candidates, info, i + 1, hackathon_cache, final)
             ELSE EligibilityLoop_RejectsEmpty(candidates, info, i + 1,
                                               Put(hackathon_cache, hackathon.url, hackathon),
                                               Append(final, hackathon))

\* a candidate of the batch goes through the eligibility loop with the empty
\* details of a failed fetch (crawler.py:91-93 and 241-244)
Unchecked(candidates, info) ==
    \E i \in 1..Len(candidates) : Get(info, candidates[i].url, EmptyMap) = EmptyMap

\* the eligibility loop (crawler.py:240-260) from position i on:
\* the hackathon cache and the final list
RECURSIVE EligibilityLoop(_, _, _, _, _)
EligibilityLoop(candidates, info, i, hackathon_cache, final) ==
    IF i > Len(candidates) THEN [hackathon_cache |-> hackathon_cache, final |-> final]
    ELSE LET hackathon == candidates[i]
             details == Get(info, hackathon.url, EmptyMap)
         IN  IF Get(details, "US only", FALSE)
                  \/ ~is_target_audience(Get(details, "eligibility_items", <<>>))
             THEN EligibilityLoop(candidates, info, i + 1, hackathon_cache, final)
             ELSE EligibilityLoop(candidates, info, i + 1,
                                  Put(hackathon_cache, hackathon.url, hackathon),
                                  Append(final, hackathon))

\* ------------------------------------------------------------------ observation

NoListing == Listing("", <<>>, <<>>)

NoFilter == Filtered("none", NotParsed, [hackathons |-> Absent, locations |-> Absent],
                     NoResolution, NoDict)

\* the step just taken: its kind, the listing it handled and what the loop body did
Event(op, listing, f) == [op |-> op, listing |-> listing, f |-> f]

Step(op) == Event(op, NoListing, NoFilter)

\* ------------------------------------------------------------------ the outside world

\* A frozen outside world answers a repeated question as it answered before: page
\* p of the listings API, the geocoding of an address, the detail page of a url.
\* In a volatile one every answer is free.
Volatile == [frozen |-> FALSE, pages |-> EmptyMap, geo |-> EmptyMap, det |-> EmptyMap]

Frozen == [frozen |-> TRUE, pages |-> EmptyMap, geo |-> EmptyMap, det |-> EmptyMap]

Answers(memo, key, value) == env.frozen /\ key \in DOMAIN memo => memo[key] = value

Learn(memo, key, value) == IF env.frozen THEN Put(memo, key, value) ELSE memo

\* runs completed in a frozen world (2 stands for two or more), and the
\* persisted hackathons partition after the last two of them
NoHist == [completed |-> 0, prev |-> EmptyMap, last |-> EmptyMap]

\* ------------------------------------------------------------------ state

EmptyDoc == [hackathons |-> EmptyMap, locations |-> EmptyMap]

\* what the Redis keys and the cache file can hold when load_cache is called
StoredHackathons ==
    {Absent, EmptyString, Undecodable, Dumps(EmptyMap),
     Dumps(UrlA :> HackathonDict(Listing(UrlA, Online, PrizeUSD), "USD", 20000))}

StoredLocations ==
    {Absent, EmptyString, Undecodable, Dumps(EmptyMap), Dumps(VancouverBC :> TRUE)}

FileContents ==
    {NoFile, FileGarbage, FileJson(EmptyMap),
     FileJson("hackathons" :> (UrlA :> HackathonDict(Listing(UrlA, Online, PrizeUSD), "USD", 20000))),
     FileJson("locations" :> (VancouverBC :> TRUE)),
     FileJson([hackathons |-> EmptyMap, locations |-> (VancouverBC :> FALSE)])}

\* a process sharing the Redis store: where it is in load_cache / save_cache, the
\* two strings it read, and its in-memory document
IdleInstance == [pc |-> "idle", hackathons |-> Absent, locations |-> Absent, doc |-> EmptyDoc]

NotLoaded == [backend |-> "none", raised |-> FALSE, doc |-> EmptyMap]

\* the state after the modules are imported with `world` outside: cache.py:17-23
\* raises when a Redis credential is missing, and the application never serves
Boot(world) ==
    /\ api_key \in BOOLEAN
    /\ kv_configured \in BOOLEAN
    /\ pc = IF kv_configured THEN "idle" ELSE "refused"
    /\ page = 1
    /\ all_hackathons = <<>>
    /\ cache_data = EmptyDoc
    /\ idx = 1
    /\ filtered_hackathons = <<>>
    /\ detailed_info = EmptyMap
    /\ result = <<>>
    /\ ev = Step("none")
    /\ prev_res = NoResolution
    /\ last_res = NoResolution
    /\ seen_at_load = {}
    /\ runs = 0
    /\ env = world
    /\ hist = NoHist
    /\ tasks = <<>>
    /\ attempts = <<>>
    /\ response = NoResponse
    /\ load_result = NotLoaded
    /\ inst = <<IdleInstance, IdleInstance>>

\* the application starts on an empty store
Start(world) ==
    /\ redis = [hackathons |-> Absent, locations |-> Absent]
    /\ data_cache = NoFile
    /\ Boot(world)

Init == Start(Volatile)

\* the provider answers only when it is asked: a step that makes no geocoding
\* call is taken once, not once per answer the provider could have given
Asked(res, geo) == res.outbound \/ geo = GeoNoResults

\* the resolver invocations seen so far, after a step whose resolver part was res
Invoked(res) ==
    /\ prev_res' = IF res.invoked THEN last_res ELSE prev_res
    /\ last_res' = IF res.invoked THEN res ELSE last_res

\* the locals of fetch_hackathon_data are gone
Unwind ==
    /\ page' = 1
    /\ all_hackathons' = <<>>
    /\ cache_data' = EmptyDoc
    /\ idx' = 1
    /\ filtered_hackathons' = <<>>
    /\ detailed_info' = EmptyMap
    /\ tasks' = <<>>
    /\ attempts' = <<>>

\* fetch_hackathon_data returns `final` and get_hackathons answers (main.py:41-46)
Return(final) ==
    /\ pc' = "done"
    /\ result' = final
    /\ response' = IF final = <<>> THEN Response(404, <<>>) ELSE Response(200, final)
    /\ Unwind
    /\ hist' = IF env.frozen
               THEN [completed |-> IF hist.completed = 0 THEN 1 ELSE 2,
                     prev |-> hist.last,
                     last |-> LoadPartition(redis'.hackathons)]
               ELSE hist

\* an exception leaves fetch_hackathon_data and get_hackathons; the global
\* exception handler answers (main.py:49-55)
Raise ==
    /\ pc' = "raised"
    /\ result' = <<>>
    /\ response' = Response(500, <<>>)
    /\ Unwind
    /\ UNCHANGED hist

\* ------------------------------------------------------------------ get_hackathons

\* a request whose x-api-key differs from API_KEY (main.py:30-32)
Unauthorized ==
    /\ pc \in {"idle", "done", "raised"}
    /\ \E x_api_key \in Headers : ~Authorized(x_api_key)
    /\ response' = Response(401, <<>>)
    /\ pc' = "idle"
    /\ result' = <<>>
    /\ ev' = Step("unauthorized")
    /\ UNCHANGED <<redis, config, page, all_hackathons, cache_data, idx,
                   filtered_hackathons, detailed_info, prev_res, last_res,
                   seen_at_load, runs, env, hist, tasks, attempts, backends>>

\* a request that passes the check: fetch_hackathon_data(url) is called (main.py:39)
Call ==
    /\ pc \in {"idle", "done", "raised"}
    /\ \E x_api_key \in Headers : Authorized(x_api_key)
    /\ runs < MaxRuns
    /\ runs' = runs + 1
    /\ pc' = "fetch"
    /\ page' = 1
    /\ all_hackathons' = <<>>
    /\ attempts' = <<>>
    /\ result' = <<>>
    /\ response' = NoResponse
    /\ seen_at_load' = {}
    /\ ev' = Step("call")
    /\ prev_res' = NoResolution
    /\ last_res' = NoResolution
    /\ UNCHANGED <<redis, config, cache_data, idx, filtered_hackathons, detailed_info,
                   env, hist, tasks, backends>>

\* ------------------------------------------------------------------ fetch_hackathon_data

\* a page loop that gives up at the first page that fails
FetchPageFrom_StopsAtFailure(responses) ==
    /\ pc = "fetch"
    /\ page <= NumPages
    /\ \E r \in responses :
          /\ Answers(env.pages, page, r)
          /\ env' = [env EXCEPT !.pages = Learn(@, page, r)]
          /\ all_hackathons' = IF r.kind = "json" THEN all_hackathons \o r.hackathons
                               ELSE all_hackathons
          /\ attempts' = Append(attempts, [page |-> page, response |-> r])
          /\ page' = IF r.kind = "json" THEN page + 1 ELSE NumPages + 1
    /\ ev' = Step("page")
    /\ UNCHANGED <<runs, redis, config, pc, cache_data, idx, filtered_hackathons, detailed_info,
                   result, prev_res, last_res, seen_at_load, hist, tasks, response, backends>>

\* one pass of the page loop (crawler.py:132-154), the API answering from `responses`
FetchPageFrom(responses) ==
    /\ pc = "fetch"
    /\ page <= NumPages
    /\ \E r \in responses :
          /\ Answers(env.pages, page, r)
          /\ env' = [env EXCEPT !.pages = Learn(@, page, r)]
          /\ all_hackathons' = IF r.kind = "json" THEN all_hackathons \o r.hackathons
                               ELSE all_hackathons
          /\ attempts' = Append(attempts, [page |-> page, response |-> r])
    /\ page' = page + 1
    /\ ev' = Step("page")
    /\ UNCHANGED <<runs, redis, config, pc, cache_data, idx, filtered_hackathons, detailed_info,
                   result, prev_res, last_res, seen_at_load, hist, tasks, response,
                   backends>>

FetchPage == FetchPageFrom(PageResponses)

\* crawler.py:156-158
ReturnNoListings ==
    /\ pc = "fetch"
    /\ page > NumPages
    /\ all_hackathons = <<>>
    /\ ev' = Step("return")
    /\ UNCHANGED <<runs, redis, config, prev_res, last_res, seen_at_load, env, backends>>
    /\ Return(<<>>)

\* crawler.py:160-164
LoadCache ==
    /\ pc = "fetch"
    /\ page > NumPages
    /\ all_hackathons # <<>>
    /\ cache_data' = load_cache(redis)
    /\ seen_at_load' = DOMAIN cache_data'.hackathons
    /\ filtered_hackathons' = <<>>
    /\ idx' = 1
    /\ pc' = "filter"
    /\ attempts' = <<>>
    /\ ev' = Step("load")
    /\ UNCHANGED <<runs, redis, config, page, all_hackathons, detailed_info, result,
                   prev_res, last_res, env, hist, tasks, response, backends>>

\* one pass of the listing loop (crawler.py:166-227)
FilterStep ==
    /\ pc = "filter"
    /\ idx <= Len(all_hackathons)
    /\ \E geo \in GeoResponses :
          LET listing == all_hackathons[idx]
              f == FilterListing(listing, cache_data.hackathons, redis, api_key, geo)
          IN  /\ Asked(f.res, geo)
              /\ f.res.outbound => Answers(env.geo, f.res.address, geo)
              /\ env' = IF f.res.outbound
                        THEN [env EXCEPT !.geo = Learn(@, f.res.address, geo)]
                        ELSE env
              /\ redis' = f.store
              /\ filtered_hackathons' = IF f.outcome = "candidate"
                                        THEN Append(filtered_hackathons, f.dict)
                                        ELSE filtered_hackathons
              /\ Invoked(f.res)
              /\ ev' = Event("filter", listing, f)
    /\ idx' = idx + 1
    /\ UNCHANGED <<runs, config, pc, page, all_hackathons, cache_data, detailed_info, result,
                   seen_at_load, hist, tasks, attempts, response, backends>>

\* crawler.py:269-271
ReturnNoCandidates ==
    /\ pc = "filter"
    /\ idx > Len(all_hackathons)
    /\ filtered_hackathons = <<>>
    /\ ev' = Step("return")
    /\ UNCHANGED <<runs, redis, config, prev_res, last_res, seen_at_load, env, backends>>
    /\ Return(<<>>)

\* crawler.py:230-233 and 80-86: one fetch task per candidate is created and
\* asyncio.gather awaits them
StartDetails ==
    /\ pc = "filter"
    /\ idx > Len(all_hackathons)
    /\ filtered_hackathons # <<>>
    /\ tasks' = [i \in 1..Len(filtered_hackathons) |-> PendingTask]
    /\ pc' = "gather"
    /\ ev' = Step("details")
    /\ UNCHANGED <<runs, redis, config, page, all_hackathons, cache_data, idx,
                   filtered_hackathons, detailed_info, result, prev_res, last_res,
                   seen_at_load, env, hist, attempts, response, backends>>

\* one of the pending fetches settles (crawler.py:32-44), in any order
SettleDetail ==
    /\ pc = "gather"
    /\ \E i \in 1..Len(tasks), r \in DetailOutcomes :
          /\ tasks[i].state = "pending"
          /\ Answers(env.det, filtered_hackathons[i].url, r)
          /\ env' = [env EXCEPT !.det = Learn(@, filtered_hackathons[i].url, r)]
          /\ tasks' = [tasks EXCEPT ![i] = fetch_hackathon_detail(r)]
    /\ ev' = Step("settle")
    /\ UNCHANGED <<runs, redis, config, pc, page, all_hackathons, cache_data, idx,
                   filtered_hackathons, detailed_info, result, prev_res, last_res,
                   seen_at_load, hist, attempts, response, backends>>

\* crawler.py:86-95: every task returned, gather gives the html contents in task
\* order and the zip loop builds detailed_info
GatherReturns ==
    /\ pc = "gather"
    /\ \A i \in 1..Len(tasks) : tasks[i].state = "returned"
    /\ detailed_info' = CollectDetails(filtered_hackathons,
                                       [i \in 1..Len(tasks) |-> tasks[i].html], 1, EmptyMap)
    /\ tasks' = <<>>
    /\ pc' = "eligibility"
    /\ ev' = Step("gathered")
    /\ UNCHANGED <<runs, redis, config, page, all_hackathons, cache_data, idx,
                   filtered_hackathons, result, prev_res, last_res, seen_at_load, env, hist,
                   attempts, response, backends>>

\* crawler.py:86: a task raised; gather (return_exceptions left False) hands the
\* exception to its awaiter at once, whatever the other tasks are doing, and
\* nothing up to get_hackathons catches it
GatherRaises ==
    /\ pc = "gather"
    /\ \E i \in 1..Len(tasks) : tasks[i].state = "raised"
    /\ ev' = Step("raise")
    /\ UNCHANGED <<runs, redis, config, prev_res, last_res, seen_at_load, env, backends>>
    /\ Raise

\* crawler.py:238-267: the eligibility loop, the save and the return
EligibilityAndSave ==
    /\ pc = "eligibility"
    /\ LET r == EligibilityLoop(filtered_hackathons, detailed_info, 1,
                                cache_data.hackathons, <<>>)
       IN  /\ redis' = save_cache([cache_data EXCEPT !.hackathons = r.hackathon_cache])
           /\ Return(r.final)
    /\ prev_res' = NoResolution
    /\ last_res' = NoResolution
    /\ ev' = Event("save", NoListing,
                   [NoFilter EXCEPT !.outcome = IF Unchecked(filtered_hackathons, detailed_info)
                                                THEN "unchecked" ELSE "none"])
    /\ UNCHANGED <<runs, config, seen_at_load, env, backends>>

\* ------------------------------------------------------------------ other callers

\* is_in_british_columbia_google called outside a pipeline run; what the last
\* request returned is no longer looked at
ResolverCall ==
    /\ pc \in {"idle", "done", "raised"}
    /\ \E address \in Addresses, geo \in GeoResponses :
          LET r == is_in_british_columbia_google(redis, address, api_key, geo) IN
          /\ Asked(r.res, geo)
          /\ r.res.outbound => Answers(env.geo, address, geo)
          /\ env' = IF r.res.outbound THEN [env EXCEPT !.geo = Learn(@, address, geo)]
                    ELSE env
          /\ redis' = r.store
          /\ Invoked(r.res)
          /\ ev' = Event("resolve", NoListing,
                         Filtered("none", NotParsed, r.store, r.res, NoDict))
    /\ pc' = "idle"
    /\ result' = <<>>
    /\ response' = NoResponse
    /\ UNCHANGED <<runs, config, page, all_hackathons, cache_data, idx, filtered_hackathons,
                   detailed_info, seen_at_load, hist, tasks, attempts, backends>>

Next ==
    \/ Unauthorized
    \/ Call
    \/ FetchPage
    \/ ReturnNoListings
    \/ LoadCache
    \/ FilterStep
    \/ ReturnNoCandidates
    \/ StartDetails
    \/ SettleDetail
    \/ GatherReturns
    \/ GatherRaises
    \/ EligibilityAndSave
    \/ ResolverCall

Spec == Init /\ [][Next]_vars

\* ------------------------------------------------------------------ repeated runs

\* the pipeline run again and again against an outside world that does not change
InitFrozen == Start(Frozen)

NextFrozen ==
    \/ Call
    \/ FetchPage
    \/ ReturnNoListings
    \/ LoadCache
    \/ FilterStep
    \/ ReturnNoCandidates
    \/ StartDetails
    \/ SettleDetail
    \/ GatherReturns
    \/ GatherRaises
    \/ EligibilityAndSave

SpecFrozen == InitFrozen /\ [][NextFrozen]_vars

\* ------------------------------------------------------------------ the listing fetcher

\* the page loop on its own, against pages of up to two listings
FetchPageWide == FetchPageFrom(WidePageResponses)

NextListingFetcher ==
    \/ Call
    \/ FetchPageWide
    \/ ReturnNoListings
    \/ LoadCache

SpecListingFetcher == Init /\ [][NextListingFetcher]_vars

\* ------------------------------------------------------------------ load_cache on its own

\* load_cache called on whatever the backing store holds
InitLoadCache ==
    /\ redis \in [hackathons : StoredHackathons, locations : StoredLocations]
    /\ data_cache \in FileContents
    /\ Boot(Volatile)

\* the Redis backend (src/api/cache.py:30-56)
LoadRemote ==
    /\ kv_configured
    /\ load_result' = [backend |-> "redis", raised |-> FALSE, doc |-> load_cache(redis)]
    /\ UNCHANGED <<redis, config, request, data_cache, inst>>

\* the file backend (src/cache.py:7-19)
LoadFile ==
    /\ LET r == file_load_cache(data_cache) IN
       load_result' = [backend |-> "file", raised |-> r.raised, doc |-> r.doc]
    /\ UNCHANGED <<redis, config, request, data_cache, inst>>

NextLoadCache ==
    \/ LoadRemote
    \/ LoadFile

SpecLoadCache == InitLoadCache /\ [][NextLoadCache]_vars

\* ------------------------------------------------------------------ two processes, one store

Instances == {1, 2}

\* the hackathon a run accepts at `url`
Accepted(url) ==
    IF url = UrlA THEN HackathonDict(Listing(UrlA, Online, PrizeUSD), "USD", 20000)
    ELSE HackathonDict(Listing(UrlB, VancouverBC, PrizeUSD), "USD", 20000)

Others == <<config, request, data_cache, load_result>>

\* redis_client.get("cache:hackathons") (cache.py:35)
GetHackathons(p) ==
    /\ kv_configured
    /\ inst[p].pc = "idle"
    /\ inst' = [inst EXCEPT ![p].pc = "got-hackathons", ![p].hackathons = redis.hackathons]
    /\ UNCHANGED <<redis, Others>>

\* redis_client.get("cache:locations") and the decoding (cache.py:36-56)
GetLocations(p) ==
    /\ inst[p].pc = "got-hackathons"
    /\ inst' = [inst EXCEPT ![p].pc = "loaded",
                            ![p].locations = redis.locations,
                            ![p].doc = load_cache([hackathons |-> inst[p].hackathons,
                                                   locations |-> redis.locations])]
    /\ UNCHANGED <<redis, Others>>

\* the process changes its document in memory: a run inserts an accepted
\* hackathon (crawler.py:260), a resolver call a location (utils.py:43, 67)
ChangeDocument(p) ==
    /\ inst[p].pc = "loaded"
    /\ \/ \E url \in {UrlA, UrlB} :
             inst' = [inst EXCEPT ![p].pc = "changed",
                                  ![p].doc.hackathons = Put(@, url, Accepted(url))]
       \/ \E address \in Addresses, is_bc \in BOOLEAN :
             inst' = [inst EXCEPT ![p].pc = "changed",
                                  ![p].doc.locations = Put(@, address, is_bc)]
    /\ UNCHANGED <<redis, Others>>

\* redis_client.set("cache:hackathons", ...) (cache.py:64, 67)
SetHackathons(p) ==
    /\ inst[p].pc = "changed"
    /\ redis' = [redis EXCEPT !.hackathons = save_cache(inst[p].doc).hackathons]
    /\ inst' = [inst EXCEPT ![p].pc = "set-hackathons"]
    /\ UNCHANGED Others

\* redis_client.set("cache:locations", ...) (cache.py:65, 68)
SetLocations(p) ==
    /\ inst[p].pc = "set-hackathons"
    /\ redis' = [redis EXCEPT !.locations = save_cache(inst[p].doc).locations]
    /\ inst' = [inst EXCEPT ![p].pc = "done"]
    /\ UNCHANGED Others

NextShared ==
    \E p \in Instances :
        \/ GetHackathons(p)
        \/ GetLocations(p)
        \/ ChangeDocument(p)
        \/ SetHackathons(p)
        \/ SetLocations(p)

SpecShared == Init /\ [][NextShared]_vars

\* ------------------------------------------------------------------ claims

PersistedHackathons == LoadPartition(redis.hackathons)

PersistedLocations == LoadPartition(redis.locations)

\* C1: two runs in a row against an unchanged outside world (same pages, same
\* geocoding answers, same detail pages): the second run returns the empty list
\* and leaves the persisted hackathons partition as the first run left it.
C1_Idempotent ==
    pc = "done" /\ hist.completed = 2
        => result = <<>> /\ PersistedHackathons = hist.prev

\* a second run that loaded a cache holding what the first run accepted
C1_Witness ==
    /\ pc = "done"
    /\ hist.completed = 2
    /\ seen_at_load # {}
    /\ hist.prev # EmptyMap

\* C2: every listing a run returns is in the persisted hackathons partition
\* after the run (stored under its url), and its url was no key of the partition
\* when the run loaded the cache.
C2_ReturnedAreInserted ==
    pc = "done" =>
        \A i \in 1..Len(result) :
            /\ result[i].url \in DOMAIN PersistedHackathons
            /\ PersistedHackathons[result[i].url] = result[i]
            /\ result[i].url \notin seen_at_load

C4_PositivePrize ==
    /\ \A i \in 1..Len(result) : result[i].prize.amount > 0
    /\ \A u \in DOMAIN PersistedHackathons : PersistedHackathons[u].prize.amount > 0

\* C5: no two listings of the list a run returns have the same url.
C5_UniqueUrls ==
    \A i, j \in 1..Len(result) : i # j => result[i].url # result[j].url

\* C6: a key of the persisted locations partition stays a key with the same
\* boolean across every step of resolver calls and pipeline runs.
C6_LocationsKept ==
    [][\A a \in DOMAIN PersistedLocations :
          a \in DOMAIN PersistedLocations' /\ PersistedLocations'[a] = PersistedLocations[a]]_vars

\* the geocoding call of the step just taken failed or found nothing
GeoFailed(res) ==
    res.outbound /\ (res.geo.kind \in {"RequestException", "ValueError"} \/ res.geo.results = <<>>)

\* C7 as claimed: after a geocoding call that failed by request error, by
\* unparsable response or by an empty result set, the resolver has returned false
\* and false is stored under the address.
C7_EveryFailureCached ==
    GeoFailed(ev.f.res) =>
        /\ ~ev.f.res.ret
        /\ ev.f.res.address \in DOMAIN PersistedLocations
        /\ ~PersistedLocations[ev.f.res.address]

\* C7 as amended: every such call returns false; an empty result set stores
\* false under the address, while a request error or an unparsable response
\* saves nothing and leaves the address uncached.
C7_NegativeCaching ==
    GeoFailed(ev.f.res) =>
        /\ ~ev.f.res.ret
        /\ ev.f.res.geo.kind = "json"
              => /\ ev.f.res.saved
                 /\ ev.f.res.address \in DOMAIN PersistedLocations
                 /\ ~PersistedLocations[ev.f.res.address]
        /\ ev.f.res.geo.kind # "json"
              => /\ ~ev.f.res.saved
                 /\ ev.f.res.address \notin DOMAIN PersistedLocations

\* a geocoding request that raised, made inside a pipeline run
C7_Witness ==
    /\ ev.op = "filter"
    /\ ev.f.res.outbound
    /\ ev.f.res.geo.kind = "RequestException"
    /\ ev.f.outcome = "not-in-bc"

\* a resolver invocation that found its address cached returned the stored
\* boolean, made no outbound call and saved nothing
HitIsQuiet ==
    ev.f.res.invoked /\ ev.f.res.address \in DOMAIN PersistedLocations /\ ~ev.f.res.saved
        => /\ ev.f.res.hit
           /\ ev.f.res.ret = PersistedLocations[ev.f.res.address]
           /\ ~ev.f.res.outbound

\* the last two resolver invocations were for the same address, nothing else
\* touching the store between them
SameAddressTwice ==
    prev_res.invoked /\ last_res.invoked /\ prev_res.address = last_res.address

RECURSIVE DecimalValue(_, _)
DecimalValue(s, acc) ==
    IF s = <<>> THEN acc
    ELSE DecimalValue(Tail(s), IF Head(s) \in Digits THEN 10 * acc + DigitValue(Head(s)) ELSE acc)

\* the visible characters of a prize field
Visible(markup) == SelectSeq(markup, LAMBDA t : t \notin Tags /\ t \notin Whitespace)

\* C9: for a listing not yet cached, a prize text starting with "$" gives
\* currency USD and, when the rest is digits and commas, the amount those digits
\* spell ("$20,000" gives 20000); a prize text that is empty or starts with a
\* character outside the symbol table is rejected without the resolver being
\* invoked and without a save.
C9_CurrencyParsing ==
    ev.op = "filter" /\ ev.f.outcome # "already-in-cache" =>
        LET text == Visible(ev.listing.prize_amount) IN
        /\ text # <<>> /\ Head(text) = "$"
              => /\ ev.f.currency_symbol = <<"$">>
                 /\ ev.f.outcome = "candidate" => ev.f.dict.prize.currency = "USD"
                 /\ (\A i \in 2..Len(text) : text[i] \in Digits \cup {","}) /\ Len(text) > 1
                       => ev.f.prize_amount = DecimalValue(Tail(text), 0)
        /\ ev.listing.prize_amount = PrizeUSD => ev.f.prize_amount = 20000
        /\ text = <<>> \/ <<Head(text)>> \notin {<<"$">>, <<"C", "A", "D">>}
              => /\ ev.f.outcome \in {"no-prize", "excluded-currency"}
                 /\ ~ev.f.res.invoked
                 /\ ~ev.f.res.saved

\* a rupee prize at a location the geography stage would have geocoded
C9_Witness ==
    /\ ev.op = "filter"
    /\ ev.listing.prize_amount = PrizeINR
    /\ ev.listing.location = VancouverBC
    /\ ev.f.outcome = "excluded-currency"
    /\ VancouverBC \notin DOMAIN PersistedLocations
    /\ api_key

\* C10: a listing whose prize carries the token CAD passes the currency filter
\* and is output with currency code CAD.
C10_CadAccepted ==
    ev.op = "filter" /\ ev.listing.prize_amount = PrizeCAD /\ ev.f.outcome # "already-in-cache"
        => ev.f.outcome = "candidate" /\ ev.f.dict.prize.currency = "CAD"

\* C11: a listing that passed the seen, prize and currency filters and whose
\* location contains "online" in any case becomes a candidate without the
\* resolver being invoked: no geocoding call, no load, no save, and the step
\* leaves both Redis keys as they were.
C11_OnlineBypass ==
    [][ev'.op = "filter"
         /\ ev'.f.outcome \notin {"already-in-cache", "no-prize", "excluded-currency"}
         /\ Contains(Lower(ev'.listing.location), <<"o", "n", "l", "i", "n", "e">>)
            => /\ ev'.f.outcome = "candidate"
               /\ ~ev'.f.res.invoked
               /\ ~ev'.f.res.loaded
               /\ ~ev'.f.res.outbound
               /\ ~ev'.f.res.saved
               /\ redis' = redis]_vars

\* an online listing with a dollar prize passed on while the key was set and
\* nothing was cached for any location
C11_Witness ==
    /\ ev.op = "filter"
    /\ ev.listing.location = Online
    /\ ev.f.outcome = "candidate"
    /\ api_key
    /\ PersistedLocations = EmptyMap
    /\ Len(filtered_hackathons) > 0

\* the province or the country component of the first result names another place
Mismatch(components) ==
    \/ \E i \in 1..Len(components) :
          /\ "administrative_area_level_1" \in components[i].types
          /\ LowerName(components[i].long_name) # "british columbia"
    \/ \E i \in 1..Len(components) :
          /\ "country" \in components[i].types
          /\ LowerName(components[i].short_name) # "ca"

\* C12: for an uncached location whose geocoding gave a non-empty result, the
\* resolver returns true iff no province component of the first result has a
\* long name other than "british columbia" and no country component has a short
\* name other than "ca", in any case; components that are absent do not count.
\* British Columbia with CA passes, Ontario with CA fails.
C12_RegionMatching ==
    ev.f.res.outbound /\ ev.f.res.geo.kind = "json" /\ ev.f.res.geo.results # <<>>
        => /\ ev.f.res.ret = ~Mismatch(ev.f.res.geo.results[1])
           /\ ev.f.res.geo = GeoVancouver => ev.f.res.ret
           /\ ev.f.res.geo = GeoToronto => ~ev.f.res.ret
           /\ ev.f.res.address \in DOMAIN PersistedLocations
           /\ PersistedLocations[ev.f.res.address] = ev.f.res.ret

\* a first result with neither a province nor a country resolved to true
C12_Witness ==
    /\ ev.f.res.outbound
    /\ ev.f.res.geo = GeoLocalityOnly
    /\ ev.f.res.ret
    /\ ev.op = "filter"
    /\ ev.f.outcome = "candidate"

\* the detail of a candidate has the region-only flag set, or one of its
\* eligibility items contains the excluded-audience phrase
Restricted(details) ==
    \/ "US only" \in DOMAIN details /\ details["US only"]
    \/ /\ "eligibility_items" \in DOMAIN details
       /\ \E i \in 1..Len(details["eligibility_items"]) :
             Contains(details["eligibility_items"][i], ExcludedKeyword)

\* C13: a candidate whose detail has the region-only flag set, or has an
\* eligibility item containing "ages 13 to 18 only", is not in the list the run
\* returns and its url is no key of the persisted hackathons partition after
\* the run's save.
C13_EligibilityExclusion ==
    [][pc = "eligibility" /\ pc' = "done" =>
          \A i \in 1..Len(filtered_hackathons) :
              LET hackathon == filtered_hackathons[i] IN
              hackathon.url \in DOMAIN detailed_info /\ Restricted(detailed_info[hackathon.url])
                  => /\ \A j \in 1..Len(result') : result'[j].url # hackathon.url
                     /\ hackathon.url \notin DOMAIN PersistedHackathons']_vars

\* a run whose candidates were all excluded at the eligibility stage: it saved,
\* returned nothing and stored no hackathon
C13_Witness ==
    /\ ev.op = "save"
    /\ pc = "done"
    /\ result = <<>>
    /\ PersistedHackathons = EmptyMap
    /\ redis.hackathons.state = "json"

\* the fetch of task i is the one whose html the zip loop keeps for its url
KeptFetch(i) ==
    \A j \in (i + 1)..Len(tasks) : filtered_hackathons[j].url # filtered_hackathons[i].url

\* C14: the detail enricher returns only when every fetch has settled, with an
\* entry for every candidate url, the entry of a url whose fetch failed (in any
\* way, a timeout included) being the empty detail; a failing fetch never aborts
\* the batch.
C14_FanOutFanIn ==
    [][pc = "gather" /\ pc' # "gather" =>
          /\ pc' = "eligibility"
          /\ \A i \in 1..Len(tasks) :
                /\ tasks[i].state # "pending"
                /\ filtered_hackathons[i].url \in DOMAIN detailed_info'
                /\ KeptFetch(i) /\ tasks[i].html.kind # "html"
                      => detailed_info'[filtered_hackathons[i].url] = EmptyMap]_vars

\* the arrays of the pages that answered with a parsed body, joined in the
\* order of the requests
RECURSIVE Collected(_)
Collected(log) ==
    IF log = <<>> THEN <<>>
    ELSE LET last == log[Len(log)] IN
         Collected(SubSeq(log, 1, Len(log) - 1))
             \o (IF last.response.kind = "json" THEN last.response.hackathons ELSE <<>>)

\* C15: whatever each page answers (a body, a request failure, an undecodable
\* body), the page loop requests pages 1..num_pages once each in increasing
\* order, goes on after a failed page, and collects the arrays of the pages that
\* succeeded, in page order and in upstream order inside a page.
C15_BestEffort ==
    [][/\ pc' = "fetch"
          => /\ Len(attempts') = page' - 1
             /\ \A i \in 1..Len(attempts') : attempts'[i].page = i
             /\ all_hackathons' = Collected(attempts')
       /\ pc = "fetch" /\ pc' # "fetch"
          => /\ Len(attempts) = NumPages
             /\ pc' = "filter" => all_hackathons' = Collected(attempts)]_vars

\* a failed first page followed by a second page of two different listings,
\* collected in upstream order
C15_Witness ==
    /\ pc = "fetch"
    /\ page > NumPages
    /\ attempts[1].response = PageRequestFailed
    /\ Len(all_hackathons) = 2
    /\ all_hackathons[1].url = UrlB
    /\ all_hackathons[2].url = UrlA

\* the partition `part` of the document load_cache gave is what the store held
\* for it, or the empty mapping when the store held nothing readable
PartitionLoaded(part) ==
    LET held == IF load_result.backend = "redis"
                THEN (IF redis[part].state = "json" THEN redis[part].json ELSE EmptyMap)
                ELSE (IF data_cache.state = "json" /\ part \in DOMAIN data_cache.json
                      THEN data_cache.json[part] ELSE EmptyMap)
    IN  /\ part \in DOMAIN load_result.doc
        /\ load_result.doc[part] = held

\* C16: load_cache, on the Redis backend and on the file backend, raises on no
\* stored content (missing, unparsable, a partition missing) and returns a
\* document with both partitions, an unreadable one being the empty mapping.
C16_LoadNeverRaises ==
    load_result.backend # "none"
        => /\ ~load_result.raised
           /\ PartitionLoaded("hackathons")
           /\ PartitionLoaded("locations")

\* C17 as claimed: with a required credential absent (the Redis URL or token,
\* or the geocoding key) the system does not serve, so no pipeline run reaches
\* the resolver.
C17_FatalAtStartup ==
    ~kv_configured \/ ~api_key => ~(ev.op = "filter" /\ ev.f.res.invoked)

\* C17 as amended: without the Redis URL or token nothing is ever served and the
\* store is never touched; without the geocoding key the system serves, and a
\* resolver invocation returns false without loading the cache, calling the
\* provider or saving, so a listing that needs geocoding is dropped.
C17_ConfigMissing ==
    /\ ~kv_configured
          => /\ pc = "refused"
             /\ ev.op = "none"
             /\ response = NoResponse
             /\ redis = [hackathons |-> Absent, locations |-> Absent]
    /\ ~api_key /\ ev.f.res.invoked
          => /\ ~ev.f.res.ret
             /\ ~ev.f.res.loaded
             /\ ~ev.f.res.outbound
             /\ ~ev.f.res.saved
             /\ ev.op = "filter" => ev.f.outcome = "not-in-bc"

\* a run that reached the resolver without the geocoding key and dropped a
\* Vancouver listing
C17_Witness ==
    /\ ~api_key
    /\ kv_configured
    /\ ev.op = "filter"
    /\ ev.f.res.invoked
    /\ ev.listing.location = VancouverBC
    /\ ev.f.outcome = "not-in-bc"

\* a pipeline run is under way
Running == pc \in {"fetch", "filter", "gather", "eligibility"}

\* a rejected request: 401, and no pipeline step (no run started, nothing asked
\* of the outside world, both Redis keys as they were)
RejectedUntouched ==
    ev'.op = "unauthorized"
        => /\ response' = Response(401, <<>>)
           /\ ~Running'
           /\ runs' = runs
           /\ env' = env
           /\ redis' = redis

\* a run that returned: 404 exactly when it returned the empty list, else the
\* success body with the hackathons it accepted
AnsweredFromResult ==
    Running /\ pc' = "done"
        => /\ response'.status = 404 <=> result' = <<>>
           /\ result' # <<>> => response' = Response(200, result')

\* C18: a request whose x-api-key differs from the secret gets 401 before any
\* pipeline step; an authorized request gets 404 exactly when the pipeline
\* returns an empty list and otherwise the success body with the accepted
\* hackathons.
C18_HttpBoundary ==
    [][/\ RejectedUntouched
       /\ AnsweredFromResult
       /\ Running /\ ~Running' => response'.status \in {200, 404}]_vars

\* C19: a pipeline run loads the cache once and saves it at most once, after
\* the whole batch: between the run's load_cache and its final save_cache no
\* step of the run reads or writes the store, also when it geocodes locations.
C19_OneLoadOneSave ==
    [][/\ pc = "fetch" /\ pc' = "filter" => redis' = redis
       /\ pc \in {"filter", "gather"}
             => /\ redis' = redis
                /\ ev'.op = "filter" => ~ev'.f.res.loaded /\ ~ev'.f.res.saved]_vars

\* C20: when two processes sharing the store have both finished, the store
\* holds the whole document one of them saved: both keys come from the same
\* save_cache call, under every interleaving of their loads and saves.
C20_WholeDocument ==
    (\A p \in Instances : inst[p].pc = "done")
        => \E p \in Instances : redis = save_cache(inst[p].doc)

\* a candidate that passed the seen filter, the prize parse, the currency filter,
\* the zero-prize filter and the geography filter of the run in progress
SurvivedStages(hackathon) ==
    /\ hackathon.url \notin seen_at_load
    /\ hackathon.prize.currency \in {"USD", "CAD"}
    /\ hackathon.prize.amount > 0
    /\ \/ IsOnlineLocation(hackathon.location)
       \/ /\ hackathon.location \in DOMAIN PersistedLocations
          /\ PersistedLocations[hackathon.location]

\* C21: detail fetches exist only once the listing loop has handled every
\* listing of the batch, one per candidate, and every candidate survived the
\* seen, prize-parse, currency, zero-prize and geography stages; a run without
\* candidates returns the empty list without a detail fetch.
C21_CandidateBatching ==
    /\ tasks # <<>>
          => /\ pc = "gather"
             /\ idx > Len(all_hackathons)
             /\ Len(tasks) = Len(filtered_hackathons)
             /\ \A i \in 1..Len(filtered_hackathons) : SurvivedStages(filtered_hackathons[i])
    /\ ev.op = "return" => tasks = <<>> /\ result = <<>> /\ response.status = 404

\* C22: across every step of pipeline runs and resolver calls an entry of the
\* persisted hackathons partition stays as it is, and an entry that appears is
\* one of the listings the run that just ended returned.
C22_HackathonsOnlyGrow ==
    [][/\ \A u \in DOMAIN PersistedHackathons :
             /\ u \in DOMAIN PersistedHackathons'
             /\ PersistedHackathons'[u] = PersistedHackathons[u]
       /\ \A u \in DOMAIN PersistedHackathons' \ DOMAIN PersistedHackathons :
             /\ pc = "eligibility" /\ pc' = "done"
             /\ \E i \in 1..Len(result') : result'[i] = PersistedHackathons'[u]]_vars

\* after the last run a resolver call re-saved the whole document while the
\* hackathons partition held the accepted listing of UrlA and none of UrlB
C22_Witness ==
    /\ ev.op = "resolve"
    /\ ev.f.res.saved
    /\ UrlA \in DOMAIN PersistedHackathons
    /\ UrlB \notin DOMAIN PersistedHackathons
    /\ runs = MaxRuns

\* C23: a candidate whose detail-page fetch failed (its details are empty) is
\* in the list the run returns and its url is a key of the persisted hackathons
\* partition after the run's save; and a listing whose url is such a key is
\* skipped by the seen filter of every later pass of the listing loop, whatever
\* its detail page holds by then.
C23_FailedFetchAccepted ==
    [][/\ pc = "eligibility" /\ pc' = "done" =>
             \A i \in 1..Len(filtered_hackathons) :
                 LET hackathon == filtered_hackathons[i] IN
                 hackathon.url \in DOMAIN detailed_info
                    /\ detailed_info[hackathon.url] = EmptyMap
                     => /\ \E j \in 1..Len(result') : result'[j] = hackathon
                        /\ hackathon.url \in DOMAIN PersistedHackathons'
       /\ ev'.op = "filter" /\ ev'.listing.url \in DOMAIN PersistedHackathons
             => /\ ev'.f.outcome = "already-in-cache"
                /\ filtered_hackathons' = filtered_hackathons]_vars

\* a run just returned and stored a candidate whose detail fetch had failed
C23_Witness ==
    /\ ev.op = "save"
    /\ ev.f.outcome = "unchecked"
    /\ pc = "done"
    /\ result # <<>>
    /\ \A i \in 1..Len(result) : result[i].url \in DOMAIN PersistedHackathons

====
